---- MODULE Spec2Model ----
(***************************************************************************)
(* A model of two parts of akula:                                          *)
(*   - the account storage codec of src/models/account.rs                  *)
(*     (Account::encode_for_storage / Account::decode_from_storage);       *)
(*   - the continuation driver of src/execution/continuation               *)
(*     (resume_interrupt, the per-kind *Interrupt handles, ResumeData).    *)
(*                                                                         *)
(* Bytes are the integers 0..255.  A u64 is its 8 base-256 digits and a    *)
(* U256 its 32 base-256 digits, least significant digit first, so that no  *)
(* value exceeds the range of the model checker's integers; a byte array   *)
(* or slice is a sequence in memory order (Rust index i is index i+1).     *)
(***************************************************************************)
EXTENDS Integers, Sequences, FiniteSets, TLC

VARIABLES
    account,        \* codec: the Account given to encode_for_storage
    omit_code_hash, \* codec: the omit_code_hash argument
    raw,            \* codec: a byte string given to decode_from_storage
    encoded,        \* codec: outcome of encode_for_storage
    decoded,        \* codec: outcome of decode_from_storage
    cpc,            \* codec: which calls have been made
    ctx,            \* driver: the executor context (what the coroutine will do)
    co,             \* driver: the InnerCoroutine
    live,           \* driver: the handles the host owns
    interrupt,      \* driver: the Interrupt most recently returned to the host
    log,            \* driver: what the coroutine has seen and done, in order
    aw              \* gen_await!: the outer coroutine awaiting the coroutine co

codecVars == <<account, omit_code_hash, raw, encoded, decoded, cpc>>
driverVars == <<ctx, co, live, interrupt, log>>
vars == <<account, omit_code_hash, raw, encoded, decoded, cpc,
          ctx, co, live, interrupt, log, aw>>

(***************************************************************************)
(* Sequences of bytes                                                      *)
(***************************************************************************)
Reverse(s) == [i \in 1..Len(s) |-> s[Len(s) + 1 - i]]

Zeros(n) == [i \in 1..n |-> 0]

Drop(s, n) == SubSeq(s, n + 1, Len(s))

\* input.iter().skip_while(|v| **v == 0)
skip_while_zero(input) ==
    LET nz == {i \in 1..Len(input) : input[i] # 0}
    IN  IF nz = {} THEN <<>>
        ELSE SubSeq(input, CHOOSE i \in nz : \A j \in nz : i <= j, Len(input))

\* the number of bits of a byte: 0 for 0, 8 for 128..255
BitLen8(b) == CHOOSE k \in 0..8 : b < 2^k /\ (k = 0 \/ b >= 2^(k - 1))

\* the number of significant bits of a number given by its digits
bits(num) ==
    LET nz == {i \in 1..Len(num) : num[i] # 0}
    IN  IF nz = {} THEN 0
        ELSE LET top == CHOOSE i \in nz : \A j \in nz : j <= i
             IN  8 * (top - 1) + BitLen8(num[top])

is_zero(num) == \A i \in 1..Len(num) : num[i] = 0

\* u64::leading_zeros
leading_zeros(num) == 64 - bits(num)

\* u64::to_be_bytes: the 8 digits, most significant first
to_be_bytes(num) == Reverse(num)

\* u64::from_le_bytes: the array is the digits, least significant first
from_le_bytes(arr) == arr

\* util::value_to_bytes: the 32 bytes of a U256, most significant first
value_to_bytes(num) == Reverse(num)


\* from_big_endian with the slice left-aligned
from_big_endian_left_aligned(slice) == Reverse(slice \o Zeros(32 - Len(slice)))

\* U256::from_big_endian of a slice of at most 32 bytes: right-aligned
from_big_endian(slice) == Reverse(Zeros(32 - Len(slice)) \o slice)

(***************************************************************************)
(* Account                                                                 *)
(***************************************************************************)
EMPTY_HASH ==
    <<197, 210, 70, 1, 134, 247, 35, 60, 146, 126, 125, 178, 220, 199, 3, 192,
      229, 0, 182, 83, 202, 130, 39, 59, 123, 250, 216, 4, 93, 133, 164, 112>>

\* a u64 / U256 written by its significant bytes, most significant first
U64Of(be) == Reverse(Zeros(8 - Len(be)) \o be)
U256Of(be) == Reverse(Zeros(32 - Len(be)) \o be)

Account_default ==
    [nonce |-> U64Of(<<>>), balance |-> U256Of(<<>>),
     code_hash |-> EMPTY_HASH, incarnation |-> U64Of(<<>>)]

MAX_ENCODED_LEN == 1 + (1 + 32) + (1 + 8) + (1 + 32) + (1 + 8)


\* u256_compact_len rounding up once too often
u256_compact_len_plus_one(num) == (bits(num) + 8) \div 8

u256_compact_len(num) == (bits(num) + 7) \div 8


\* u64_compact_len rounding up once too often
u64_compact_len_plus_one(num) == ((64 - leading_zeros(num)) + 8) \div 8

u64_compact_len(num) == ((64 - leading_zeros(num)) + 7) \div 8

encoding_length_for_storage(self) ==
    1
    + (IF ~is_zero(self.balance) THEN 1 + u256_compact_len(self.balance) ELSE 0)
    + (IF ~is_zero(self.nonce) THEN 1 + u64_compact_len(self.nonce) ELSE 0)
    + (IF self.code_hash # EMPTY_HASH THEN 33 ELSE 0)
    + (IF ~is_zero(self.incarnation)
       THEN 1 + u64_compact_len(self.incarnation) ELSE 0)

(***************************************************************************)
(* AccountStorageFlags: a one-byte bitfield, first field in bit 0          *)
(***************************************************************************)
AccountStorageFlags_default ==
    [nonce |-> FALSE, balance |-> FALSE, incarnation |-> FALSE,
     code_hash |-> FALSE, dummy |-> 0]

Bit(b) == IF b THEN 1 ELSE 0


\* into_bytes with the first field in the most significant bit
into_bytes_msb_first(fs) ==
    128 * Bit(fs.nonce) + 64 * Bit(fs.balance) + 32 * Bit(fs.incarnation)
    + 16 * Bit(fs.code_hash) + fs.dummy

into_bytes(fs) ==
    Bit(fs.nonce) + 2 * Bit(fs.balance) + 4 * Bit(fs.incarnation)
    + 8 * Bit(fs.code_hash) + 16 * fs.dummy

from_bytes(byte) ==
    [nonce |-> (byte % 2) = 1,
     balance |-> ((byte \div 2) % 2) = 1,
     incarnation |-> ((byte \div 4) % 2) = 1,
     code_hash |-> ((byte \div 8) % 2) = 1,
     dummy |-> byte \div 16]

(***************************************************************************)
(* encode_for_storage.  The encoder's state is the buffer, the position,   *)
(* the field set and whether an index or slice went out of bounds.         *)
(***************************************************************************)
\* buffer[i] = byte, for a Rust index i
Store(st, i, byte) ==
    IF st.panic \/ i >= Len(st.buffer) THEN [st EXCEPT !.panic = TRUE]
    ELSE [st EXCEPT !.buffer[i + 1] = byte]

\* buffer[i + k - 1] = bytes[k] for every k: out of bounds when one index is
StoreAll(st, i, bytes) ==
    IF st.panic \/ i + Len(bytes) > Len(st.buffer)
    THEN [st EXCEPT !.panic = TRUE]
    ELSE [st EXCEPT !.buffer =
              [j \in 1..Len(st.buffer) |->
                  IF j > i /\ j <= i + Len(bytes) THEN bytes[j - i]
                  ELSE st.buffer[j]]]

\* pos += 1 + write_compact(input, &mut buffer[pos..])
write_compact(st, input) ==
    LET tail == skip_while_zero(input)
        written == Len(tail)
        sliced == IF st.pos > Len(st.buffer) THEN [st EXCEPT !.panic = TRUE]
                  ELSE st
        body == StoreAll(sliced, st.pos + 1, tail)
        head == IF written > 0 THEN Store(body, st.pos, written) ELSE body
    IN  [head EXCEPT !.pos = st.pos + 1 + written]

encode_nonce(st, self) ==
    IF ~is_zero(self.nonce)
    THEN write_compact([st EXCEPT !.field_set.nonce = TRUE],
                       to_be_bytes(self.nonce))
    ELSE st

encode_balance(st, self) ==
    IF ~is_zero(self.balance)
    THEN write_compact([st EXCEPT !.field_set.balance = TRUE],
                       value_to_bytes(self.balance))
    ELSE st


\* the incarnation written without set_incarnation(true)
encode_incarnation_unflagged(st, self) ==
    IF ~is_zero(self.incarnation)
    THEN write_compact(st, to_be_bytes(self.incarnation))
    ELSE st

encode_incarnation(st, self) ==
    IF ~is_zero(self.incarnation)
    THEN write_compact([st EXCEPT !.field_set.incarnation = TRUE],
                       to_be_bytes(self.incarnation))
    ELSE st

encode_code_hash(st, self, omit) ==
    IF self.code_hash # EMPTY_HASH /\ ~omit
    THEN LET flagged == [st EXCEPT !.field_set.code_hash = TRUE]
             len == Store(flagged, st.pos, 32)
             sliced == IF st.pos + 33 > Len(st.buffer)
                       THEN [len EXCEPT !.panic = TRUE] ELSE len
         IN  StoreAll(sliced, st.pos + 1, self.code_hash)
    ELSE st

\* the encoder's state when every field has been written
encode_run(self, omit) ==
    LET s0 == [buffer |-> Zeros(encoding_length_for_storage(self)),
               field_set |-> AccountStorageFlags_default,
               pos |-> 1, panic |-> FALSE]
        s1 == encode_nonce(s0, self)
        s2 == encode_balance(s1, self)
        s3 == encode_incarnation(s2, self)
    IN  encode_code_hash(s3, self, omit)

encode_for_storage(self, omit) ==
    LET s4 == encode_run(self, omit)
        s5 == Store(s4, 0, into_bytes(s4.field_set))
    IN  IF s5.panic THEN [kind |-> "Panic", bytes |-> <<>>]
        ELSE [kind |-> "Ok", bytes |-> s5.buffer]

(***************************************************************************)
(* decode_from_storage.  The decoder's state is the account being filled   *)
(* and the bytes of enc not yet consumed; kind is "Run" while decoding,    *)
(* "Panic" once an index, a slice or a library assertion has failed.       *)
(***************************************************************************)
DecodePanic(st) == [st EXCEPT !.kind = "Panic"]


\* bytes_to_u64 filling decoded from the front of buf instead of its end
bytes_to_u64_forward(buf) ==
    from_le_bytes([i \in 1..8 |-> IF i <= Len(buf) THEN buf[i] ELSE 0])

\* bytes_to_u64: decoded[i] = the i-th byte of buf from its end
bytes_to_u64(buf) ==
    from_le_bytes([i \in 1..8 |-> IF i <= Len(buf) THEN Reverse(buf)[i] ELSE 0])

\* let decode_length = enc.get_u8() as usize; ... &enc[..decode_length]
\* the state with the length byte consumed, or a panic when enc is empty
\* or holds fewer than decode_length further bytes
take_length(st) ==
    IF st.kind # "Run" THEN st
    ELSE IF Len(st.enc) = 0 THEN DecodePanic(st)
    ELSE IF Head(st.enc) > Len(st.enc) - 1 THEN DecodePanic(st)
    ELSE [st EXCEPT !.enc = Tail(st.enc)]

decode_nonce(st) ==
    IF st.kind # "Run" \/ ~st.field_set.nonce THEN st
    ELSE LET t == take_length(st)
             decode_length == Head(st.enc)
         IN  IF t.kind # "Run" THEN t
             ELSE IF decode_length > 8 THEN DecodePanic(t)
             ELSE [t EXCEPT !.a.nonce = bytes_to_u64(SubSeq(t.enc, 1, decode_length)),
                            !.enc = Drop(t.enc, decode_length)]

decode_balance(st) ==
    IF st.kind # "Run" \/ ~st.field_set.balance THEN st
    ELSE LET t == take_length(st)
             decode_length == Head(st.enc)
         IN  IF t.kind # "Run" THEN t
             ELSE IF decode_length > 32 THEN DecodePanic(t)
             ELSE [t EXCEPT !.a.balance =
                                from_big_endian(SubSeq(t.enc, 1, decode_length)),
                            !.enc = Drop(t.enc, decode_length)]

decode_incarnation(st) ==
    IF st.kind # "Run" \/ ~st.field_set.incarnation THEN st
    ELSE LET t == take_length(st)
             decode_length == Head(st.enc)
         IN  IF t.kind # "Run" THEN t
             ELSE IF decode_length > 8 THEN DecodePanic(t)
             ELSE [t EXCEPT !.a.incarnation =
                                bytes_to_u64(SubSeq(t.enc, 1, decode_length)),
                            !.enc = Drop(t.enc, decode_length)]

\* the length check is commented out; H256::from_slice asserts 32 bytes
decode_code_hash(st) ==
    IF st.kind # "Run" \/ ~st.field_set.code_hash THEN st
    ELSE LET t == take_length(st)
             decode_length == Head(st.enc)
         IN  IF t.kind # "Run" THEN t
             ELSE IF decode_length # 32 THEN DecodePanic(t)
             ELSE [t EXCEPT !.a.code_hash = SubSeq(t.enc, 1, decode_length),
                            !.enc = Drop(t.enc, decode_length)]


\* decode_from_storage reading the balance before the nonce
decode_from_storage_balance_first(enc) ==
    LET d0 == [kind |-> "Run", a |-> Account_default, enc |-> enc,
               field_set |-> AccountStorageFlags_default]
        d1 == IF Len(enc) = 0 THEN DecodePanic(d0)
              ELSE [d0 EXCEPT !.field_set = from_bytes(Head(enc)),
                              !.enc = Tail(enc)]
        d5 == decode_code_hash(decode_incarnation(decode_nonce(decode_balance(d1))))
    IN  IF d5.kind = "Run" THEN [kind |-> "Ok", value |-> <<d5.a>>]
        ELSE [kind |-> "Panic", value |-> <<>>]

decode_from_storage(enc) ==
    LET d0 == [kind |-> "Run", a |-> Account_default, enc |-> enc,
               field_set |-> AccountStorageFlags_default]
        d1 == IF Len(enc) = 0 THEN DecodePanic(d0)
              ELSE [d0 EXCEPT !.field_set = from_bytes(Head(enc)),
                              !.enc = Tail(enc)]
        d5 == decode_code_hash(decode_incarnation(decode_balance(decode_nonce(d1))))
    IN  IF d5.kind = "Run" THEN [kind |-> "Ok", value |-> <<d5.a>>]
        ELSE [kind |-> "Panic", value |-> <<>>]

(***************************************************************************)
(* Inputs of the codec                                                     *)
(***************************************************************************)
Bytes255(n) == [i \in 1..n |-> 255]

\* keccak256(&[1, 2, 3]), as in the tests
KECCAK_010203 ==
    <<241, 136, 94, 218, 84, 183, 160, 83, 49, 140, 212, 30, 32, 147, 34, 13,
      171, 21, 214, 83, 129, 177, 21, 122, 54, 51, 168, 59, 253, 92, 146, 57>>

\* H256(hex!("00..0123")), as in the tests
HASH_0123 == Zeros(30) \o <<1, 35>>

Nonces ==
    {U64Of(<<>>), U64Of(<<2>>), U64Of(<<100>>), U64Of(<<1, 0>>),
     U64Of(<<1>> \o Zeros(7)), U64Of(Bytes255(8))}

Balances ==
    {U256Of(<<>>), U256Of(<<3, 232>>), U256Of(<<1, 0, 0>>),
     U256Of(<<128>> \o Zeros(31)), U256Of(Bytes255(32))}

Incarnations ==
    {U64Of(<<>>), U64Of(<<1>>), U64Of(<<4>>), U64Of(<<5>>), U64Of(Bytes255(8))}

CodeHashes == {EMPTY_HASH, KECCAK_010203, HASH_0123, Zeros(32)}

Accounts ==
    [nonce : Nonces, balance : Balances, code_hash : CodeHashes,
     incarnation : Incarnations]

MaxChunks == 2

\* pieces of input: a length byte and what follows it, well formed or not
Chunks ==
    {<<0>>, <<1, 5>>, <<1, 0>>, <<2, 3, 232>>, <<2, 1>>,
     <<8>> \o Bytes255(8), <<9>> \o Bytes255(9),
     <<31>> \o Bytes255(31), <<32>> \o KECCAK_010203, <<32>> \o Bytes255(32),
     <<33>> \o Bytes255(33)}

FlagBytes == 0..15 \cup {16, 17, 24, 128, 143, 255}

RECURSIVE ChunkSeqs(_)
ChunkSeqs(n) ==
    IF n = 0 THEN {<<>>}
    ELSE LET shorter == ChunkSeqs(n - 1)
         IN  shorter \cup {s \o c : s \in shorter, c \in Chunks}

\* inputs with all four fields: the bytes of the tests, and bytes no encoder
\* writes (a zero byte before a payload, a zero-length field, EMPTY_HASH)
FullInputs ==
    {<<15, 1, 2, 2, 3, 232, 1, 4, 32>> \o KECCAK_010203,
     <<15, 8>> \o Bytes255(8) \o <<32>> \o Bytes255(32) \o <<8>> \o Bytes255(8)
         \o <<32>> \o HASH_0123,
     <<15, 2, 0, 1, 3, 0, 3, 232, 0, 32>> \o EMPTY_HASH,
     <<7, 1, 2, 2, 3, 232, 1, 5>>, <<5, 1, 100, 1, 5>>,
     <<7, 1, 2, 2, 3, 232, 1, 5, 0>>}

RawInputs ==
    {<<>>} \cup {<<f>> \o s : f \in FlagBytes, s \in ChunkSeqs(MaxChunks)}
    \cup FullInputs

NoEncoded == [kind |-> "None", bytes |-> <<>>]
NoDecoded == [kind |-> "None", value |-> <<>>]

(***************************************************************************)
(* Continuation driver: values                                             *)
(***************************************************************************)
MaxYields == 2

\* request parameters are opaque values; within one sample all fields differ
Samples == {1, 2}

InterruptDataOf(kind, n) ==
    CASE kind = "ReadAccount" -> [kind |-> kind, address |-> 10 + n]
      [] kind = "ReadStorage" ->
            [kind |-> kind, address |-> 10 + n, location |-> 20 + n]
      [] kind = "ReadCode" -> [kind |-> kind, code_hash |-> 30 + n]
      [] kind = "EraseStorage" ->
            [kind |-> kind, address |-> 10 + n, location |-> 20 + n]
      [] kind = "ReadHeader" ->
            [kind |-> kind, block_number |-> 40 + n, block_hash |-> 50 + n]
      [] kind = "ReadBody" ->
            [kind |-> kind, block_number |-> 40 + n, block_hash |-> 50 + n]
      [] kind = "ReadTotalDifficulty" ->
            [kind |-> kind, block_number |-> 40 + n, block_hash |-> 50 + n]
      [] kind = "BeginBlock" -> [kind |-> kind, block_number |-> 40 + n]
      [] kind = "UpdateAccount" ->
            [kind |-> kind, address |-> 10 + n, initial |-> 60 + n,
             current |-> 70 + n]
      [] kind = "UpdateCode" ->
            [kind |-> kind, code_hash |-> 30 + n, code |-> 80 + n]
      [] kind = "UpdateStorage" ->
            [kind |-> kind, address |-> 10 + n, location |-> 20 + n,
             initial |-> 60 + n, current |-> 70 + n]

InterruptKinds ==
    {"ReadAccount", "ReadStorage", "ReadCode", "EraseStorage", "ReadHeader",
     "ReadBody", "ReadTotalDifficulty", "BeginBlock", "UpdateAccount",
     "UpdateCode", "UpdateStorage"}

InterruptData == {InterruptDataOf(k, n) : k \in InterruptKinds, n \in Samples}

\* Result<(), Box<ValidationError>>
Results == {"Ok(())", "Err(e1)", "Err(e2)"}

RECURSIVE Scripts(_)
Scripts(n) ==
    IF n = 0 THEN {<<>>}
    ELSE LET shorter == Scripts(n - 1)
         IN  shorter \cup {s \o <<d>> : s \in shorter, d \in InterruptData}

\* the values a host can pass to a resume method, by the method's argument type
ValuesOf(ty) ==
    CASE ty = "()" -> {[ty |-> ty, v |-> "()"]}
      [] ty = "Option<Account>" ->
            {[ty |-> ty, v |-> "None"], [ty |-> ty, v |-> "Some(account)"]}
      [] ty = "U256" -> {[ty |-> ty, v |-> "0"], [ty |-> ty, v |-> "1"]}
      [] ty = "Bytes" -> {[ty |-> ty, v |-> "0x"], [ty |-> ty, v |-> "0x60"]}
      [] ty = "Box<Option<BlockHeader>>" ->
            {[ty |-> ty, v |-> "None"], [ty |-> ty, v |-> "Some(header)"]}
      [] ty = "Box<Option<BlockBody>>" ->
            {[ty |-> ty, v |-> "None"], [ty |-> ty, v |-> "Some(body)"]}
      [] ty = "Option<U256>" ->
            {[ty |-> ty, v |-> "None"], [ty |-> ty, v |-> "Some(1)"]}

\* ResumeData::from: the derived From impls and From<()>
into(x) ==
    CASE x.ty = "()" -> [variant |-> "Empty", v |-> "()"]
      [] x.ty = "Option<Account>" -> [variant |-> "Account", v |-> x.v]
      [] x.ty = "U256" -> [variant |-> "Storage", v |-> x.v]
      [] x.ty = "Bytes" -> [variant |-> "Code", v |-> x.v]
      [] x.ty = "Box<Option<BlockHeader>>" -> [variant |-> "Header", v |-> x.v]
      [] x.ty = "Box<Option<BlockBody>>" -> [variant |-> "Body", v |-> x.v]
      [] x.ty = "Option<U256>" -> [variant |-> "TotalDifficulty", v |-> x.v]


\* the interrupt! invocations with ReadStorageInterrupt => Option<U256>
resume_with_storage_as_option(name) ==
    CASE name = "StartedInterrupt" -> "()"
      [] name = "ReadAccountInterrupt" -> "Option<Account>"
      [] name = "ReadStorageInterrupt" -> "Option<U256>"
      [] name = "ReadCodeInterrupt" -> "Bytes"
      [] name = "EraseStorageInterrupt" -> "()"
      [] name = "ReadHeaderInterrupt" -> "Box<Option<BlockHeader>>"
      [] name = "ReadBodyInterrupt" -> "Box<Option<BlockBody>>"
      [] name = "ReadTotalDifficultyInterrupt" -> "Option<U256>"
      [] name = "BeginBlockInterrupt" -> "()"
      [] name = "UpdateAccountInterrupt" -> "()"
      [] name = "UpdateCodeInterrupt" -> "()"
      [] name = "UpdateStorageInterrupt" -> "()"

\* interrupt!: $name => $resume_with
resume_with(name) ==
    CASE name = "StartedInterrupt" -> "()"
      [] name = "ReadAccountInterrupt" -> "Option<Account>"
      [] name = "ReadStorageInterrupt" -> "U256"
      [] name = "ReadCodeInterrupt" -> "Bytes"
      [] name = "EraseStorageInterrupt" -> "()"
      [] name = "ReadHeaderInterrupt" -> "Box<Option<BlockHeader>>"
      [] name = "ReadBodyInterrupt" -> "Box<Option<BlockBody>>"
      [] name = "ReadTotalDifficultyInterrupt" -> "Option<U256>"
      [] name = "BeginBlockInterrupt" -> "()"
      [] name = "UpdateAccountInterrupt" -> "()"
      [] name = "UpdateCodeInterrupt" -> "()"
      [] name = "UpdateStorageInterrupt" -> "()"

(***************************************************************************)
(* Continuation driver: the coroutine and resume_interrupt                 *)
(***************************************************************************)

\* every handle built as the struct that has no resume method
Handle_without_resume(name, c) == [type |-> "FinishedInterrupt", inner |-> c.resumes]

\* a handle struct of type name holding the boxed coroutine; epoch tells
\* the values of the box apart: the number of resumes before it was made
Handle(name, c) == [type |-> name, inner |-> c.resumes]

\* Generator::resume on the boxed coroutine: the next yield of the
\* executor, its return value, or a panic when resumed after it returned
generator_resume(c, context, resume_data) ==
    IF c.state \in {"Returned", "Panicked"}
    THEN [co |-> [c EXCEPT !.state = "Panicked"], out |-> [tag |-> "Panic"]]
    ELSE IF c.pc < Len(context.script)
    THEN [co |-> [state |-> "Suspended", pc |-> c.pc + 1,
                  resumes |-> c.resumes + 1],
          out |-> [tag |-> "Yielded", v |-> context.script[c.pc + 1]]]
    ELSE [co |-> [state |-> "Returned", pc |-> c.pc, resumes |-> c.resumes + 1],
          out |-> [tag |-> "Complete", v |-> context.result]]


\* resume_interrupt handing UpdateStorage's current as initial and back
yielded_interrupt_swapped(d, c) ==
    CASE d.kind = "ReadAccount" ->
            [kind |-> "ReadAccount",
             interrupt |-> Handle("ReadAccountInterrupt", c),
             address |-> d.address]
      [] d.kind = "ReadStorage" ->
            [kind |-> "ReadStorage",
             interrupt |-> Handle("ReadStorageInterrupt", c),
             address |-> d.address, location |-> d.location]
      [] d.kind = "ReadCode" ->
            [kind |-> "ReadCode",
             interrupt |-> Handle("ReadCodeInterrupt", c),
             code_hash |-> d.code_hash]
      [] d.kind = "EraseStorage" ->
            [kind |-> "EraseStorage",
             interrupt |-> Handle("EraseStorageInterrupt", c),
             address |-> d.address, location |-> d.location]
      [] d.kind = "ReadHeader" ->
            [kind |-> "ReadHeader",
             interrupt |-> Handle("ReadHeaderInterrupt", c),
             block_number |-> d.block_number, block_hash |-> d.block_hash]
      [] d.kind = "ReadBody" ->
            [kind |-> "ReadBody",
             interrupt |-> Handle("ReadBodyInterrupt", c),
             block_number |-> d.block_number, block_hash |-> d.block_hash]
      [] d.kind = "ReadTotalDifficulty" ->
            [kind |-> "ReadTotalDifficulty",
             interrupt |-> Handle("ReadTotalDifficultyInterrupt", c),
             block_number |-> d.block_number, block_hash |-> d.block_hash]
      [] d.kind = "BeginBlock" ->
            [kind |-> "BeginBlock",
             interrupt |-> Handle("BeginBlockInterrupt", c),
             block_number |-> d.block_number]
      [] d.kind = "UpdateAccount" ->
            [kind |-> "UpdateAccount",
             interrupt |-> Handle("UpdateAccountInterrupt", c),
             address |-> d.address, initial |-> d.initial,
             current |-> d.current]
      [] d.kind = "UpdateCode" ->
            [kind |-> "UpdateCode",
             interrupt |-> Handle("UpdateCodeInterrupt", c),
             code_hash |-> d.code_hash, code |-> d.code]
      [] d.kind = "UpdateStorage" ->
            [kind |-> "UpdateStorage",
             interrupt |-> Handle("UpdateStorageInterrupt", c),
             address |-> d.address, location |-> d.location,
             initial |-> d.current, current |-> d.initial]

\* the Interrupt variant built for a yielded InterruptData
yielded_interrupt(d, c) ==
    CASE d.kind = "ReadAccount" ->
            [kind |-> "ReadAccount",
             interrupt |-> Handle("ReadAccountInterrupt", c),
             address |-> d.address]
      [] d.kind = "ReadStorage" ->
            [kind |-> "ReadStorage",
             interrupt |-> Handle("ReadStorageInterrupt", c),
             address |-> d.address, location |-> d.location]
      [] d.kind = "ReadCode" ->
            [kind |-> "ReadCode",
             interrupt |-> Handle("ReadCodeInterrupt", c),
             code_hash |-> d.code_hash]
      [] d.kind = "EraseStorage" ->
            [kind |-> "EraseStorage",
             interrupt |-> Handle("EraseStorageInterrupt", c),
             address |-> d.address, location |-> d.location]
      [] d.kind = "ReadHeader" ->
            [kind |-> "ReadHeader",
             interrupt |-> Handle("ReadHeaderInterrupt", c),
             block_number |-> d.block_number, block_hash |-> d.block_hash]
      [] d.kind = "ReadBody" ->
            [kind |-> "ReadBody",
             interrupt |-> Handle("ReadBodyInterrupt", c),
             block_number |-> d.block_number, block_hash |-> d.block_hash]
      [] d.kind = "ReadTotalDifficulty" ->
            [kind |-> "ReadTotalDifficulty",
             interrupt |-> Handle("ReadTotalDifficultyInterrupt", c),
             block_number |-> d.block_number, block_hash |-> d.block_hash]
      [] d.kind = "BeginBlock" ->
            [kind |-> "BeginBlock",
             interrupt |-> Handle("BeginBlockInterrupt", c),
             block_number |-> d.block_number]
      [] d.kind = "UpdateAccount" ->
            [kind |-> "UpdateAccount",
             interrupt |-> Handle("UpdateAccountInterrupt", c),
             address |-> d.address, initial |-> d.initial,
             current |-> d.current]
      [] d.kind = "UpdateCode" ->
            [kind |-> "UpdateCode",
             interrupt |-> Handle("UpdateCodeInterrupt", c),
             code_hash |-> d.code_hash, code |-> d.code]
      [] d.kind = "UpdateStorage" ->
            [kind |-> "UpdateStorage",
             interrupt |-> Handle("UpdateStorageInterrupt", c),
             address |-> d.address, location |-> d.location,
             initial |-> d.initial, current |-> d.current]



\* Complete built with Ok(()) whatever the coroutine returned
complete_interrupt_ok(result, c) ==
    [kind |-> "Complete", interrupt |-> Handle("FinishedInterrupt", c),
     result |-> "Ok(())"]

\* Complete built around a handle type that has a resume method
complete_interrupt_resumable(result, c) ==
    [kind |-> "Complete", interrupt |-> Handle("BeginBlockInterrupt", c),
     result |-> result]

\* the Interrupt variant built when the coroutine returns
complete_interrupt(result, c) ==
    [kind |-> "Complete", interrupt |-> Handle("FinishedInterrupt", c),
     result |-> result]

\* resume_interrupt(inner, resume_data): the coroutine afterwards, what it
\* did (out) and the Interrupt returned ("Unwound" when the resume panicked)
resume_interrupt(c, context, resume_data) ==
    LET r == generator_resume(c, context, resume_data)
    IN  [co |-> r.co,
         out |-> r.out,
         ret |-> CASE r.out.tag = "Yielded" -> yielded_interrupt(r.out.v, r.co)
                   [] r.out.tag = "Complete" -> complete_interrupt(r.out.v, r.co)
                   [] r.out.tag = "Panic" -> [kind |-> "Unwound"]]

\* what the coroutine sees and does in one resume: the value it is resumed
\* with, then its yield or its return
Events(resume_data, out) ==
    <<[ev |-> "resume", data |-> resume_data]>>
    \o (CASE out.tag = "Yielded" -> <<[ev |-> "yield", data |-> out.v]>>
          [] out.tag = "Complete" -> <<[ev |-> "return", data |-> out.v]>>
          [] out.tag = "Panic" -> <<>>)


\* resume(&self, ..): the host keeps the handle
Consume_by_reference(handles, h) == handles

\* resume(self, ..) takes the handle by value: the host no longer has it
Consume(handles, h) == handles \ {h}

(***************************************************************************)
(* Specification of the codec: an account is encoded and the bytes decoded *)
(* again, or a byte string is decoded.                                     *)
(***************************************************************************)

(***************************************************************************)
(* gen_await!                                                              *)
(***************************************************************************)
ResumeData_Empty == [variant |-> "Empty", v |-> "()"]

\* one pass of the loop up to the yield or the break: $e is resumed with
\* the local resume_data
gen_await_resume(a, c, context) ==
    LET r == generator_resume(c, context, a.resume_data)
    IN  [co |-> r.co,
         events |-> Events(a.resume_data, r.out),
         aw |-> CASE r.out.tag = "Yielded" ->
                       [a EXCEPT !.pc = "yield",
                                 !.yielded = Append(@, r.out.v)]
                  [] r.out.tag = "Complete" ->
                       [a EXCEPT !.pc = "break", !.value = <<r.out.v>>]
                  [] r.out.tag = "Panic" -> [a EXCEPT !.pc = "panic"]]

\* the yield expression's value thrown away: `yield interrupt;`
gen_await_yield_discarding(a, rd) ==
    [a EXCEPT !.pc = "loop", !.received = Append(@, rd)]

\* resume_data = yield interrupt: the outer coroutine is resumed with rd
gen_await_yield(a, rd) ==
    [a EXCEPT !.pc = "loop", !.resume_data = rd, !.received = Append(@, rd)]

NewCoroutine == [state |-> "Unresumed", pc |-> 0, resumes |-> 0]

DriverIdle ==
    /\ ctx = [script |-> <<>>, result |-> "Ok(())"]
    /\ co = NewCoroutine
    /\ live = {Handle("StartedInterrupt", NewCoroutine)}
    /\ interrupt = [kind |-> "None"]
    /\ log = <<>>

CodecIdle ==
    /\ account = Account_default
    /\ omit_code_hash = FALSE
    /\ raw = <<>>
    /\ encoded = NoEncoded
    /\ decoded = NoDecoded
    /\ cpc = "idle"


\* the outer coroutine of a gen_await!: where it stands, the macro's local
\* resume_data, what it has yielded and been resumed with, what the macro
\* evaluated to
AwaitIdle ==
    aw = [pc |-> "idle", resume_data |-> ResumeData_Empty,
          yielded |-> <<>>, received |-> <<>>, value |-> <<>>]

InitCodec ==
    /\ \/ /\ cpc = "account"
          /\ account \in Accounts
          /\ omit_code_hash \in BOOLEAN
          /\ raw = <<>>
       \/ /\ cpc = "bytes"
          /\ account = Account_default
          /\ omit_code_hash = FALSE
          /\ raw \in RawInputs
    /\ encoded = NoEncoded
    /\ decoded = NoDecoded
    /\ DriverIdle
    /\ AwaitIdle

\* account.encode_for_storage(omit_code_hash)
Encode ==
    /\ cpc = "account"
    /\ encoded' = encode_for_storage(account, omit_code_hash)
    /\ cpc' = "encoded"
    /\ UNCHANGED <<account, omit_code_hash, raw, decoded>>
    /\ UNCHANGED driverVars
    /\ UNCHANGED aw

\* Account::decode_from_storage(&encoded_account), as run_test_storage does
DecodeEncoded ==
    /\ cpc = "encoded"
    /\ encoded.kind = "Ok"
    /\ raw' = encoded.bytes
    /\ decoded' = decode_from_storage(encoded.bytes)
    /\ cpc' = "roundtrip"
    /\ UNCHANGED <<account, omit_code_hash, encoded>>
    /\ UNCHANGED driverVars
    /\ UNCHANGED aw

\* Account::decode_from_storage(raw) on bytes from the database
DecodeRaw ==
    /\ cpc = "bytes"
    /\ decoded' = decode_from_storage(raw)
    /\ cpc' = "parsed"
    /\ UNCHANGED <<account, omit_code_hash, raw, encoded>>
    /\ UNCHANGED driverVars
    /\ UNCHANGED aw

\* decoded.encode_for_storage(false) on the account decoded from raw
ReEncode ==
    /\ cpc = "parsed"
    /\ decoded.kind = "Ok"
    /\ encoded' = encode_for_storage(decoded.value[1], FALSE)
    /\ cpc' = "reencoded"
    /\ UNCHANGED <<account, omit_code_hash, raw, decoded>>
    /\ UNCHANGED driverVars
    /\ UNCHANGED aw

NextCodec == Encode \/ DecodeEncoded \/ DecodeRaw \/ ReEncode

SpecCodec == InitCodec /\ [][NextCodec]_vars

(***************************************************************************)
(* Specification of the driver: the host starts a continuation, answers    *)
(* each Interrupt through the handle it carries, or drops the handle.      *)
(***************************************************************************)
InitDriver ==
    /\ ctx \in [script : Scripts(MaxYields), result : Results]
    /\ co = NewCoroutine
    /\ live = {Handle("StartedInterrupt", NewCoroutine)}
    /\ interrupt = [kind |-> "None"]
    /\ log = <<>>
    /\ CodecIdle
    /\ AwaitIdle

\* $name::resume(self, resume_data: $resume_with) -> Interrupt, on the
\* handle h with the argument x: the coroutine, the log, the Interrupt the
\* host has and the handles it owns afterwards
resume(h, x) ==
    LET r == resume_interrupt(co, ctx, into(x))
    IN  [co |-> r.co,
         log |-> log \o Events(into(x), r.out),
         interrupt |-> IF r.ret.kind = "Unwound" THEN interrupt ELSE r.ret,
         live |-> IF r.ret.kind = "Unwound" THEN Consume(live, h)
                  ELSE Consume(live, h) \cup {r.ret.interrupt}]

StartedInterrupt_resume ==
    \E h \in live, x \in ValuesOf(resume_with("StartedInterrupt")) :
        /\ h.type = "StartedInterrupt"
        /\ co' = resume(h, x).co
        /\ log' = resume(h, x).log
        /\ interrupt' = resume(h, x).interrupt
        /\ live' = resume(h, x).live
        /\ UNCHANGED ctx
        /\ UNCHANGED codecVars
        /\ UNCHANGED aw

ReadAccountInterrupt_resume ==
    \E h \in live, x \in ValuesOf(resume_with("ReadAccountInterrupt")) :
        /\ h.type = "ReadAccountInterrupt"
        /\ co' = resume(h, x).co
        /\ log' = resume(h, x).log
        /\ interrupt' = resume(h, x).interrupt
        /\ live' = resume(h, x).live
        /\ UNCHANGED ctx
        /\ UNCHANGED codecVars
        /\ UNCHANGED aw

ReadStorageInterrupt_resume ==
    \E h \in live, x \in ValuesOf(resume_with("ReadStorageInterrupt")) :
        /\ h.type = "ReadStorageInterrupt"
        /\ co' = resume(h, x).co
        /\ log' = resume(h, x).log
        /\ interrupt' = resume(h, x).interrupt
        /\ live' = resume(h, x).live
        /\ UNCHANGED ctx
        /\ UNCHANGED codecVars
        /\ UNCHANGED aw

ReadCodeInterrupt_resume ==
    \E h \in live, x \in ValuesOf(resume_with("ReadCodeInterrupt")) :
        /\ h.type = "ReadCodeInterrupt"
        /\ co' = resume(h, x).co
        /\ log' = resume(h, x).log
        /\ interrupt' = resume(h, x).interrupt
        /\ live' = resume(h, x).live
        /\ UNCHANGED ctx
        /\ UNCHANGED codecVars
        /\ UNCHANGED aw

EraseStorageInterrupt_resume ==
    \E h \in live, x \in ValuesOf(resume_with("EraseStorageInterrupt")) :
        /\ h.type = "EraseStorageInterrupt"
        /\ co' = resume(h, x).co
        /\ log' = resume(h, x).log
        /\ interrupt' = resume(h, x).interrupt
        /\ live' = resume(h, x).live
        /\ UNCHANGED ctx
        /\ UNCHANGED codecVars
        /\ UNCHANGED aw

ReadHeaderInterrupt_resume ==
    \E h \in live, x \in ValuesOf(resume_with("ReadHeaderInterrupt")) :
        /\ h.type = "ReadHeaderInterrupt"
        /\ co' = resume(h, x).co
        /\ log' = resume(h, x).log
        /\ interrupt' = resume(h, x).interrupt
        /\ live' = resume(h, x).live
        /\ UNCHANGED ctx
        /\ UNCHANGED codecVars
        /\ UNCHANGED aw

ReadBodyInterrupt_resume ==
    \E h \in live, x \in ValuesOf(resume_with("ReadBodyInterrupt")) :
        /\ h.type = "ReadBodyInterrupt"
        /\ co' = resume(h, x).co
        /\ log' = resume(h, x).log
        /\ interrupt' = resume(h, x).interrupt
        /\ live' = resume(h, x).live
        /\ UNCHANGED ctx
        /\ UNCHANGED codecVars
        /\ UNCHANGED aw

ReadTotalDifficultyInterrupt_resume ==
    \E h \in live, x \in ValuesOf(resume_with("ReadTotalDifficultyInterrupt")) :
        /\ h.type = "ReadTotalDifficultyInterrupt"
        /\ co' = resume(h, x).co
        /\ log' = resume(h, x).log
        /\ interrupt' = resume(h, x).interrupt
        /\ live' = resume(h, x).live
        /\ UNCHANGED ctx
        /\ UNCHANGED codecVars
        /\ UNCHANGED aw

BeginBlockInterrupt_resume ==
    \E h \in live, x \in ValuesOf(resume_with("BeginBlockInterrupt")) :
        /\ h.type = "BeginBlockInterrupt"
        /\ co' = resume(h, x).co
        /\ log' = resume(h, x).log
        /\ interrupt' = resume(h, x).interrupt
        /\ live' = resume(h, x).live
        /\ UNCHANGED ctx
        /\ UNCHANGED codecVars
        /\ UNCHANGED aw

UpdateAccountInterrupt_resume ==
    \E h \in live, x \in ValuesOf(resume_with("UpdateAccountInterrupt")) :
        /\ h.type = "UpdateAccountInterrupt"
        /\ co' = resume(h, x).co
        /\ log' = resume(h, x).log
        /\ interrupt' = resume(h, x).interrupt
        /\ live' = resume(h, x).live
        /\ UNCHANGED ctx
        /\ UNCHANGED codecVars
        /\ UNCHANGED aw

UpdateCodeInterrupt_resume ==
    \E h \in live, x \in ValuesOf(resume_with("UpdateCodeInterrupt")) :
        /\ h.type = "UpdateCodeInterrupt"
        /\ co' = resume(h, x).co
        /\ log' = resume(h, x).log
        /\ interrupt' = resume(h, x).interrupt
        /\ live' = resume(h, x).live
        /\ UNCHANGED ctx
        /\ UNCHANGED codecVars
        /\ UNCHANGED aw

UpdateStorageInterrupt_resume ==
    \E h \in live, x \in ValuesOf(resume_with("UpdateStorageInterrupt")) :
        /\ h.type = "UpdateStorageInterrupt"
        /\ co' = resume(h, x).co
        /\ log' = resume(h, x).log
        /\ interrupt' = resume(h, x).interrupt
        /\ live' = resume(h, x).live
        /\ UNCHANGED ctx
        /\ UNCHANGED codecVars
        /\ UNCHANGED aw

\* the host drops a handle it owns: the continuation is abandoned
DropHandle ==
    /\ \E h \in live : live' = live \ {h}
    /\ UNCHANGED <<ctx, co, interrupt, log>>
    /\ UNCHANGED codecVars
    /\ UNCHANGED aw

NextDriver ==
    \/ StartedInterrupt_resume
    \/ ReadAccountInterrupt_resume
    \/ ReadStorageInterrupt_resume
    \/ ReadCodeInterrupt_resume
    \/ EraseStorageInterrupt_resume
    \/ ReadHeaderInterrupt_resume
    \/ ReadBodyInterrupt_resume
    \/ ReadTotalDifficultyInterrupt_resume
    \/ BeginBlockInterrupt_resume
    \/ UpdateAccountInterrupt_resume
    \/ UpdateCodeInterrupt_resume
    \/ UpdateStorageInterrupt_resume
    \/ DropHandle

SpecDriver == InitDriver /\ [][NextDriver]_vars

(***************************************************************************)
(* Specification of gen_await!: an outer coroutine awaits the coroutine    *)
(* co; its host answers each request it re-yields through the handle of    *)
(* the request's kind.                                                     *)
(***************************************************************************)
InitAwait ==
    /\ ctx \in [script : Scripts(MaxYields), result : Results]
    /\ co = NewCoroutine
    /\ live = {}
    /\ interrupt = [kind |-> "None"]
    /\ log = <<>>
    /\ aw = [pc |-> "loop", resume_data |-> ResumeData_Empty,
             yielded |-> <<>>, received |-> <<>>, value |-> <<>>]
    /\ CodecIdle

\* match Pin::new(&mut $e).resume(resume_data) { .. }
AwaitResume ==
    /\ aw.pc = "loop"
    /\ co' = gen_await_resume(aw, co, ctx).co
    /\ log' = log \o gen_await_resume(aw, co, ctx).events
    /\ aw' = gen_await_resume(aw, co, ctx).aw
    /\ UNCHANGED <<ctx, live, interrupt>>
    /\ UNCHANGED codecVars

\* the outer coroutine is resumed at its yield, with an argument of the
\* resume method of the handle its request was wrapped with
AwaitYield ==
    /\ aw.pc = "yield"
    /\ \E x \in ValuesOf(resume_with(
                 yielded_interrupt(aw.yielded[Len(aw.yielded)], co).interrupt.type)) :
           aw' = gen_await_yield(aw, into(x))
    /\ UNCHANGED <<ctx, co, live, interrupt, log>>
    /\ UNCHANGED codecVars

NextAwait == AwaitResume \/ AwaitYield

SpecAwait == InitAwait /\ [][NextAwait]_vars

\* the host answers every Interrupt it is given and drops no handle; a
\* resume is a synchronous call, so one that can be made is made
NextAnswer ==
    \/ StartedInterrupt_resume
    \/ ReadAccountInterrupt_resume
    \/ ReadStorageInterrupt_resume
    \/ ReadCodeInterrupt_resume
    \/ EraseStorageInterrupt_resume
    \/ ReadHeaderInterrupt_resume
    \/ ReadBodyInterrupt_resume
    \/ ReadTotalDifficultyInterrupt_resume
    \/ BeginBlockInterrupt_resume
    \/ UpdateAccountInterrupt_resume
    \/ UpdateCodeInterrupt_resume
    \/ UpdateStorageInterrupt_resume

SpecDriverFair == InitDriver /\ [][NextAnswer]_vars /\ WF_vars(NextAnswer)

(***************************************************************************)
(* Properties of the codec                                                 *)
(***************************************************************************)
Encoded == cpc \in {"encoded", "roundtrip"}

AccountOf(n, b, c, i) ==
    [nonce |-> U64Of(n), balance |-> U256Of(b), code_hash |-> c,
     incarnation |-> U64Of(i)]

\* the significant bytes of a number, most significant first
MinimalBE(num) ==
    LET k == (bits(num) + 7) \div 8 IN [i \in 1..k |-> num[k + 1 - i]]

IntField(num) ==
    IF is_zero(num) THEN <<>> ELSE <<Len(MinimalBE(num))>> \o MinimalBE(num)

HashField(hash) == IF hash = EMPTY_HASH THEN <<>> ELSE <<32>> \o hash

FlagByte(a) ==
    (IF is_zero(a.nonce) THEN 0 ELSE 1) + (IF is_zero(a.balance) THEN 0 ELSE 2)
    + (IF is_zero(a.incarnation) THEN 0 ELSE 4)
    + (IF a.code_hash = EMPTY_HASH THEN 0 ELSE 8)

Layout(a) ==
    <<FlagByte(a)>> \o IntField(a.nonce) \o IntField(a.balance)
    \o IntField(a.incarnation) \o HashField(a.code_hash)

\* the accounts of the tests and the bytes the tests expect for them
Scenarios ==
    {<<AccountOf(<<100>>, <<>>, EMPTY_HASH, <<5>>), <<5, 1, 100, 1, 5>>>>,
     <<AccountOf(<<2>>, <<3, 232>>, KECCAK_010203, <<4>>),
       <<15, 1, 2, 2, 3, 232, 1, 4, 32>> \o KECCAK_010203>>,
     <<AccountOf(<<2>>, <<3, 232>>, KECCAK_010203, <<5>>),
       <<15, 1, 2, 2, 3, 232, 1, 5, 32>> \o KECCAK_010203>>,
     <<AccountOf(<<2>>, <<3, 232>>, EMPTY_HASH, <<5>>),
       <<7, 1, 2, 2, 3, 232, 1, 5>>>>,
     <<AccountOf(<<>>, <<>>, HASH_0123, <<1>>), <<12, 1, 1, 32>> \o HASH_0123>>,
     <<AccountOf(<<>>, <<>>, EMPTY_HASH, <<1>>), <<4, 1, 1>>>>}

\* C1: decoding the bytes of encode_for_storage(a, false) returns an account
\* equal to a in nonce, balance, code_hash and incarnation.
C1_RoundTrip ==
    (cpc = "roundtrip" /\ ~omit_code_hash) =>
        /\ decoded.kind = "Ok"
        /\ Len(decoded.value) = 1
        /\ decoded.value[1].nonce = account.nonce
        /\ decoded.value[1].balance = account.balance
        /\ decoded.value[1].code_hash = account.code_hash
        /\ decoded.value[1].incarnation = account.incarnation

C1_Witness ==
    /\ cpc = "roundtrip" /\ ~omit_code_hash
    /\ account = AccountOf(<<1, 0>>, Bytes255(32), KECCAK_010203, Bytes255(8))
    /\ decoded.kind = "Ok"

\* C2: with omit_code_hash = false the encoding is exactly the flag byte,
\* then each non-default field in the order nonce, balance, incarnation,
\* code_hash, an integer as its length byte and minimal big-endian bytes and
\* code_hash as 32 and its 32 bytes; decoding those bytes gives the account
\* back; the accounts of the tests encode to the bytes the tests give.
C2_ByteExactLayout ==
    (Encoded /\ ~omit_code_hash) =>
        /\ encoded = [kind |-> "Ok", bytes |-> Layout(account)]
        /\ \A sc \in Scenarios : account = sc[1] => encoded.bytes = sc[2]
        /\ cpc = "roundtrip" =>
              /\ raw = Layout(account)
              /\ decoded = [kind |-> "Ok", value |-> <<account>>]

C2_Witness ==
    /\ cpc = "roundtrip" /\ ~omit_code_hash
    /\ account = AccountOf(<<2>>, <<3, 232>>, EMPTY_HASH, <<5>>)
    /\ raw = <<7, 1, 2, 2, 3, 232, 1, 5>>
    /\ decoded = [kind |-> "Ok", value |-> <<account>>]

\* where the length byte of the next field is, given where this field's is:
\* a position beyond the input when this field's length byte is missing
FieldAfter(b, p, flagged) ==
    IF ~flagged \/ p > Len(b) THEN p ELSE p + 1 + b[p]

FlagBit(b, k) == Len(b) >= 1 /\ (b[1] \div (2^k)) % 2 = 1

NoncePos(b) == 2
BalancePos(b) == FieldAfter(b, NoncePos(b), FlagBit(b, 0))
IncarnationPos(b) == FieldAfter(b, BalancePos(b), FlagBit(b, 1))
CodeHashPos(b) == FieldAfter(b, IncarnationPos(b), FlagBit(b, 2))

\* a flagged field at p declares a length above max
TooLong(b, k, p, max) == FlagBit(b, k) /\ p <= Len(b) /\ b[p] > max

\* a flagged field at p lacks its length byte or part of its payload
CutShort(b, k, p) == FlagBit(b, k) /\ (p > Len(b) \/ p + b[p] > Len(b))

\* C6: input whose code_hash flag (bit 3) is set and whose code_hash length
\* byte is not 32 is rejected with a DecodeError; it neither returns an
\* account nor aborts.
C6_CodeHashLengthRejected ==
    (/\ cpc = "parsed"
     /\ FlagBit(raw, 3)
     /\ CodeHashPos(raw) <= Len(raw)
     /\ raw[CodeHashPos(raw)] # 32) => decoded.kind = "DecodeError"

\* C7: input whose flag byte has one of the bits 4 to 7 set is rejected with
\* a DecodeError, whatever follows.
C7_ReservedBitsRejected ==
    (cpc = "parsed" /\ Len(raw) >= 1 /\ raw[1] >= 16) =>
        decoded.kind = "DecodeError"

\* C8: input is rejected with a DecodeError when a flagged integer field
\* declares a length above 8 (nonce, incarnation) or 32 (balance), or when
\* the flag byte, a length byte or part of a payload is missing; the decoder
\* neither returns an account nor aborts.
C8_LengthAndTruncationRejected ==
    (/\ cpc = "parsed"
     /\ \/ Len(raw) = 0
        \/ TooLong(raw, 0, NoncePos(raw), 8)
        \/ TooLong(raw, 1, BalancePos(raw), 32)
        \/ TooLong(raw, 2, IncarnationPos(raw), 8)
        \/ CutShort(raw, 0, NoncePos(raw))
        \/ CutShort(raw, 1, BalancePos(raw))
        \/ CutShort(raw, 2, IncarnationPos(raw))
        \/ CutShort(raw, 3, CodeHashPos(raw))) => decoded.kind = "DecodeError"

\* C9: for an account with code_hash # EMPTY_HASH, encoding with
\* omit_code_hash = true gives the bytes (same length, same content) of
\* encoding, with omit_code_hash = false, the account with code_hash set to
\* EMPTY_HASH.
C9_OmitEqualsEmptyHash ==
    (Encoded /\ omit_code_hash /\ account.code_hash # EMPTY_HASH) =>
        encoded = encode_for_storage([account EXCEPT !.code_hash = EMPTY_HASH],
                                     FALSE)

\* C10 as stated: the encoding with omit_code_hash = false is at most
\* MAX_ENCODED_LEN bytes long, and MAX_ENCODED_LEN is 83.
C10_SizeBound83 ==
    (Encoded /\ ~omit_code_hash) =>
        /\ encoded.kind = "Ok"
        /\ Len(encoded.bytes) <= MAX_ENCODED_LEN
        /\ MAX_ENCODED_LEN = 83

\* C10 amended: the encoding with omit_code_hash = false is at most
\* MAX_ENCODED_LEN bytes long, and MAX_ENCODED_LEN is 85.
C10_SizeBound85 ==
    (Encoded /\ ~omit_code_hash) =>
        /\ encoded.kind = "Ok"
        /\ Len(encoded.bytes) <= MAX_ENCODED_LEN
        /\ MAX_ENCODED_LEN = 85

C10_Witness ==
    /\ Encoded /\ ~omit_code_hash
    /\ account = AccountOf(Bytes255(8), Bytes255(32), KECCAK_010203, Bytes255(8))
    /\ Len(encoded.bytes) = MAX_ENCODED_LEN

(***************************************************************************)
(* Properties of the driver                                                *)
(***************************************************************************)
\* the pairing of request kinds and resume variants
LegalResume(kind) ==
    CASE kind = "ReadAccount" -> "Account"
      [] kind = "ReadStorage" -> "Storage"
      [] kind = "ReadCode" -> "Code"
      [] kind = "ReadHeader" -> "Header"
      [] kind = "ReadBody" -> "Body"
      [] kind = "ReadTotalDifficulty" -> "TotalDifficulty"
      [] kind \in {"EraseStorage", "BeginBlock", "UpdateAccount", "UpdateCode",
                   "UpdateStorage"} -> "Empty"

\* C3: the value the coroutine is resumed with after a yield is of the
\* variant paired with the request kind (Account for ReadAccount, Storage
\* for ReadStorage, Code for ReadCode, Header for ReadHeader, Body for
\* ReadBody, TotalDifficulty for ReadTotalDifficulty, Empty for the other
\* five), the handle of a pending request accepts only that variant, and a
\* yield is followed by exactly one resume before the next yield.
C3_TypePairing ==
    /\ \A i \in 1..Len(log) :
          /\ (log[i].ev = "yield" /\ i < Len(log)) =>
                /\ log[i + 1].ev = "resume"
                /\ log[i + 1].data.variant = LegalResume(log[i].data.kind)
          /\ log[i].ev = "resume" =>
                /\ i < Len(log)
                /\ log[i + 1].ev \in {"yield", "return"}
          /\ log[i].ev = "return" => i = Len(log)
    /\ interrupt.kind \in InterruptKinds =>
          \A x \in ValuesOf(resume_with(interrupt.interrupt.type)) :
              into(x).variant = LegalResume(interrupt.kind)

C3_Witness ==
    /\ Len(log) >= 5
    /\ log[2].ev = "yield" /\ log[2].data.kind = "ReadStorage"
    /\ log[3].ev = "resume" /\ log[3].data.variant = "Storage"
    /\ log[4].ev = "yield" /\ log[4].data.kind = "UpdateStorage"
    /\ log[5].ev = "resume" /\ log[5].data.variant = "Empty"

\* C4: once Interrupt::Complete has been returned the host holds no handle
\* with a resume method, the coroutine is not advanced again and no further
\* Interrupt is produced.
C4_FinishedIsTerminal ==
    /\ [](interrupt.kind = "Complete" =>
            /\ co.state = "Returned"
            /\ \A h \in live : h.type = "FinishedInterrupt")
    /\ [][interrupt.kind = "Complete" =>
            (co' = co /\ log' = log /\ interrupt' = interrupt)]_vars

C4_Witness ==
    /\ interrupt.kind = "Complete"
    /\ co.pc = 2
    /\ live = {}

\* C5: the continuation is owned by at most one handle, the one inside the
\* most recently returned Interrupt (before start, the StartedInterrupt);
\* a resume consumes it and moves the coroutine into the handle of the next
\* Interrupt, so a handle made before the last resume is never owned again.
C5_SingleOwner ==
    /\ Cardinality(live) <= 1
    /\ \A h \in live : h.inner = co.resumes
    /\ IF interrupt.kind = "None"
       THEN live \subseteq {Handle("StartedInterrupt", NewCoroutine)}
       ELSE live \subseteq {interrupt.interrupt}
    /\ Cardinality({i \in 1..Len(log) : log[i].ev = "resume"}) = co.resumes

C5_Witness ==
    /\ co.resumes = 2
    /\ interrupt.kind \in InterruptKinds
    /\ live = {interrupt.interrupt}

\* the number of significant bytes of a number
SignificantBytes(num) == Cardinality({i \in 1..Len(num) : \E j \in i..Len(num) : num[j] # 0})

\* C11: the encoding with omit_code_hash = false is MAX_ENCODED_LEN bytes
\* long if and only if nonce has 8 significant bytes, balance 32,
\* incarnation 8 and code_hash # EMPTY_HASH.
C11_MaxLenIff ==
    (Encoded /\ ~omit_code_hash) =>
        (Len(encoded.bytes) = MAX_ENCODED_LEN
            <=> /\ SignificantBytes(account.nonce) = 8
                /\ SignificantBytes(account.balance) = 32
                /\ SignificantBytes(account.incarnation) = 8
                /\ account.code_hash # EMPTY_HASH)

C11_Witness ==
    /\ cpc = "encoded" /\ ~omit_code_hash
    /\ account = AccountOf(<<1>> \o Zeros(7), <<128>> \o Zeros(31), HASH_0123,
                           Bytes255(8))
    /\ Len(encoded.bytes) = MAX_ENCODED_LEN

\* C12: in the encoding with omit_code_hash = false the flag byte has bit 0
\* set iff nonce # 0, bit 1 iff balance # 0, bit 2 iff incarnation # 0,
\* bit 3 iff code_hash # EMPTY_HASH, and bits 4 to 7 clear; the default
\* account encodes to the single byte 0x00.
C12_PresenceRule ==
    (Encoded /\ ~omit_code_hash) =>
        /\ encoded.kind = "Ok"
        /\ FlagBit(encoded.bytes, 0) <=> ~is_zero(account.nonce)
        /\ FlagBit(encoded.bytes, 1) <=> ~is_zero(account.balance)
        /\ FlagBit(encoded.bytes, 2) <=> ~is_zero(account.incarnation)
        /\ FlagBit(encoded.bytes, 3) <=> account.code_hash # EMPTY_HASH
        /\ encoded.bytes[1] < 16
        /\ account = Account_default => encoded.bytes = <<0>>

C12_Witness ==
    /\ cpc = "encoded" /\ ~omit_code_hash
    /\ account = Account_default
    /\ encoded.bytes = <<0>>

\* the bytes the encoder has written when it returns: the flag byte and
\* the fields up to the position, and the 33 bytes of a written code hash
BytesWritten(st) == st.pos + (IF st.field_set.code_hash THEN 33 ELSE 0)

\* C13: for every account and either omit_code_hash the encoder writes
\* only inside the buffer sized by encoding_length_for_storage, the buffer
\* fits the capacity of EncodedAccount, and the bytes written, flag byte
\* included, are as many as encoding_length_for_storage: no byte at the end
\* of the buffer is left unwritten.
C13_EncodingCannotFail ==
    Encoded =>
        /\ encoded.kind = "Ok"
        /\ Len(encoded.bytes) <= MAX_ENCODED_LEN
        /\ BytesWritten(encode_run(account, omit_code_hash))
              = encoding_length_for_storage(account)
        /\ Len(encoded.bytes) = BytesWritten(encode_run(account, omit_code_hash))

\* the payload of the field whose length byte is at p
Payload(b, p) == SubSeq(b, p + 1, p + b[p])

\* a flagged integer field at p as an encoder writes it: 1 to max bytes,
\* all present, the first not zero
CanonicalInt(b, k, p, max) ==
    FlagBit(b, k) =>
        /\ p <= Len(b) /\ b[p] >= 1 /\ b[p] <= max
        /\ p + b[p] <= Len(b)
        /\ b[p + 1] # 0

\* a flagged code hash at p as an encoder writes it
CanonicalHash(b, p) ==
    FlagBit(b, 3) =>
        /\ p <= Len(b) /\ b[p] = 32
        /\ p + 32 <= Len(b)
        /\ Payload(b, p) # EMPTY_HASH

\* well formed, every present field respecting the omission rules, and
\* nothing after the last field
Canonical(b) ==
    /\ Len(b) >= 1 /\ b[1] < 16
    /\ CanonicalInt(b, 0, NoncePos(b), 8)
    /\ CanonicalInt(b, 1, BalancePos(b), 32)
    /\ CanonicalInt(b, 2, IncarnationPos(b), 8)
    /\ CanonicalHash(b, CodeHashPos(b))
    /\ FieldAfter(b, CodeHashPos(b), FlagBit(b, 3)) = Len(b) + 1

\* C14: a well-formed byte string whose present fields respect the
\* omission rules (no flagged field of value zero, no zero byte leading a
\* payload, no flagged code_hash equal to EMPTY_HASH, no trailing bytes)
\* decodes to an account whose encoding with omit_code_hash = false is that
\* byte string.
C14_ReEncode ==
    /\ (cpc = "parsed" /\ Canonical(raw)) => decoded.kind = "Ok"
    /\ (cpc = "reencoded" /\ Canonical(raw)) =>
          encoded = [kind |-> "Ok", bytes |-> raw]

C14_Witness ==
    /\ cpc = "reencoded"
    /\ raw = <<15, 8>> \o Bytes255(8) \o <<32>> \o Bytes255(32) \o <<8>>
                 \o Bytes255(8) \o <<32>> \o HASH_0123
    /\ Canonical(raw)
    /\ encoded.bytes = raw

\* the digits of the number a payload holds as a right-aligned big-endian
\* value of the given width
RightAligned(payload, width) ==
    [i \in 1..width |->
        IF i <= Len(payload) THEN payload[Len(payload) + 1 - i] ELSE 0]

\* C20: decoding reads a field only when its flag bit is set, in the order
\* nonce, balance, incarnation, code_hash, takes each integer payload as a
\* right-aligned big-endian value, and leaves a field whose flag bit is
\* clear at its default (0, 0, 0, EMPTY_HASH).
C20_DecodeFields ==
    (cpc \in {"parsed", "reencoded", "roundtrip"} /\ decoded.kind = "Ok") =>
        LET a == decoded.value[1]
        IN  /\ a.nonce = IF FlagBit(raw, 0)
                         THEN RightAligned(Payload(raw, NoncePos(raw)), 8)
                         ELSE Zeros(8)
            /\ a.balance = IF FlagBit(raw, 1)
                           THEN RightAligned(Payload(raw, BalancePos(raw)), 32)
                           ELSE Zeros(32)
            /\ a.incarnation = IF FlagBit(raw, 2)
                               THEN RightAligned(Payload(raw, IncarnationPos(raw)), 8)
                               ELSE Zeros(8)
            /\ a.code_hash = IF FlagBit(raw, 3)
                             THEN Payload(raw, CodeHashPos(raw))
                             ELSE EMPTY_HASH

C20_Witness ==
    /\ cpc = "parsed"
    /\ raw = <<15, 2, 0, 1, 3, 0, 3, 232, 0, 32>> \o EMPTY_HASH
    /\ decoded.kind = "Ok"
    /\ decoded.value[1] = AccountOf(<<1>>, <<3, 232>>, EMPTY_HASH, <<>>)

\* C16: when the executor makes finitely many yields and the host answers
\* every non-terminal Interrupt with a legal resume, Interrupt::Complete is
\* eventually returned; until then a resume can always be made, and it
\* returns the next Interrupt.
C16_Termination ==
    /\ <>(interrupt.kind = "Complete")
    /\ [](interrupt.kind # "Complete" =>
            \E h \in live : h.type # "FinishedInterrupt" /\ h.inner = co.resumes)
    /\ [][co' # co => interrupt' # interrupt]_vars

C16_Witness ==
    /\ interrupt.kind = "Complete"
    /\ co.pc = 2
    /\ co.resumes = 3

Last(seq) == seq[Len(seq)]

\* C17: when the coroutine returns Err(e) the host receives
\* Interrupt::Complete with that Err(e) and the continuation is finished;
\* when it returns Ok(()) the host receives Complete with Ok(()); no
\* non-terminal Interrupt carries a result.
C17_ErrorSurface ==
    /\ co.state = "Returned" =>
          /\ interrupt.kind = "Complete"
          /\ Last(log).ev = "return"
          /\ interrupt.result = Last(log).data
          /\ interrupt.result = ctx.result
    /\ interrupt.kind = "Complete" => co.state = "Returned"
    /\ interrupt.kind \in InterruptKinds =>
          /\ "result" \notin DOMAIN interrupt
          /\ co.state = "Suspended"

C17_Witness ==
    /\ interrupt.kind = "Complete"
    /\ interrupt.result = "Err(e2)"
    /\ co.pc = 1

\* the handle type of each request kind
HandleTypeOf(kind) ==
    CASE kind = "ReadAccount" -> "ReadAccountInterrupt"
      [] kind = "ReadStorage" -> "ReadStorageInterrupt"
      [] kind = "ReadCode" -> "ReadCodeInterrupt"
      [] kind = "EraseStorage" -> "EraseStorageInterrupt"
      [] kind = "ReadHeader" -> "ReadHeaderInterrupt"
      [] kind = "ReadBody" -> "ReadBodyInterrupt"
      [] kind = "ReadTotalDifficulty" -> "ReadTotalDifficultyInterrupt"
      [] kind = "BeginBlock" -> "BeginBlockInterrupt"
      [] kind = "UpdateAccount" -> "UpdateAccountInterrupt"
      [] kind = "UpdateCode" -> "UpdateCodeInterrupt"
      [] kind = "UpdateStorage" -> "UpdateStorageInterrupt"

\* an Interrupt without its handle: the kind and the request parameters
Request(int) == [f \in DOMAIN int \ {"interrupt"} |-> int[f]]

EventsOf(kinds) == SelectSeq(log, LAMBDA e : e.ev \in kinds)

\* C18: each start or resume advances the coroutine by one step and
\* returns the Interrupt of the kind of the yielded InterruptData with every
\* parameter unchanged, or Complete when it returned: the Interrupts the
\* host is given are, in order, the coroutine's yields and then one
\* Complete.
C18_InterruptsFollowYields ==
    /\ [](interrupt.kind \in InterruptKinds =>
            /\ Last(log).ev = "yield"
            /\ Request(interrupt) = Last(log).data
            /\ Last(log).data = ctx.script[co.pc]
            /\ interrupt.interrupt.type = HandleTypeOf(interrupt.kind))
    /\ [](interrupt.kind = "Complete" =>
            /\ Last(log).ev = "return"
            /\ co.pc = Len(ctx.script)
            /\ Len(EventsOf({"return"})) = 1)
    /\ [](/\ Len(EventsOf({"resume"})) = co.resumes
          /\ Len(EventsOf({"yield"})) = co.pc
          /\ Len(EventsOf({"yield", "return"})) = co.resumes)
    /\ [][interrupt' # interrupt =>
            /\ Len(log') = Len(log) + 2
            /\ co'.resumes = co.resumes + 1]_vars

C18_Witness ==
    /\ interrupt.kind = "Complete"
    /\ Len(log) = 6
    /\ log[2].ev = "yield" /\ log[2].data.kind = "UpdateStorage"
    /\ log[4].ev = "yield" /\ log[4].data.kind = "UpdateAccount"

\* the ResumeData values a host can pass for a request of the given kind
LegalResumeData(kind) == {into(x) : x \in ValuesOf(resume_with(HandleTypeOf(kind)))}

\* C19: an outer coroutine awaiting an inner one re-yields each of the inner
\* coroutine's requests in order, resumes the inner coroutine the first
\* time with ResumeData::Empty and afterwards with the value received for
\* the request it yielded last, and evaluates to the inner coroutine's
\* return value once it completes.
C19_Delegation ==
    aw.pc # "idle" =>
        /\ aw.pc \in {"loop", "yield", "break"}
        /\ aw.yielded = SubSeq(ctx.script, 1, co.pc)
        /\ aw.yielded = [i \in 1..Len(EventsOf({"yield"})) |->
                            EventsOf({"yield"})[i].data]
        /\ Len(aw.received) = IF aw.pc = "loop" THEN co.resumes
                              ELSE co.resumes - 1
        /\ [i \in 1..Len(EventsOf({"resume"})) |-> EventsOf({"resume"})[i].data]
              = SubSeq(<<ResumeData_Empty>> \o aw.received, 1, co.resumes)
        /\ \A i \in 1..Len(log) :
              IF i % 2 = 1 THEN log[i].ev = "resume"
              ELSE log[i].ev \in {"yield", "return"}
        /\ \A k \in 1..Len(aw.received) :
              /\ log[2 * k].data = aw.yielded[k]
              /\ aw.received[k] \in LegalResumeData(aw.yielded[k].kind)
              /\ 2 * k + 1 <= Len(log) => log[2 * k + 1].data = aw.received[k]
        /\ aw.pc = "break" <=> co.state = "Returned"
        /\ aw.pc = "break" =>
              /\ aw.value = <<ctx.result>>
              /\ Last(log) = [ev |-> "return", data |-> ctx.result]
              /\ aw.yielded = ctx.script
        /\ aw.pc # "break" => aw.value = <<>>

C19_Witness ==
    /\ aw.pc = "break"
    /\ Len(aw.yielded) = 2
    /\ aw.yielded[1].kind = "ReadStorage" /\ aw.received[1].v = "1"
    /\ aw.yielded[2].kind = "ReadAccount" /\ aw.received[2].v = "None"
    /\ aw.value = <<"Err(e1)">>

====
